---- MODULE Spec2Model ----
(***************************************************************************)
(* Model of the compound-curation pipeline of vm_NAP:                      *)
(*   src/src/prepare_virtual_metabolization.py  (the table functions)      *)
(*   src/src/vm_NAP_processing.py               (main, apply_filtering)    *)
(*                                                                         *)
(* Strings whose content the code inspects (structures, identifiers, link  *)
(* fields) are sequences of one-character strings.  A missing cell (pandas *)
(* NaN) of a string column is the one-element sequence NaN; a missing cell *)
(* of a numeric column is <<>> and a number v is <<v>>.  A DataFrame is a  *)
(* sequence of rows (records); every row carries a ghost field src naming  *)
(* the table row it was read from.  The entries of the accumulated lists   *)
(* are records [v |-> value, src |-> origin of the value].                 *)
(***************************************************************************)
EXTENDS Integers, Sequences, FiniteSets, TLC

VARIABLES
    pc,                     \* position of main / phase of a direct call
    list_compound_name,     \* prepare_for_virtual_metabolization.list_compound_name
    list_smiles,            \* prepare_for_virtual_metabolization.list_smiles
    extra_compound_names,   \* load_extra_compounds.extra_compound_names
    extra_compound_smiles,  \* load_extra_compounds.extra_compound_smiles
    call,                   \* the most recent call: function, arguments, state before it
    ret,                    \* what the most recent call returned
    markdown_link_sygma,    \* run_sygma_batch.markdown_link_sygma and its five companions
    markdown_link_biotransf \* run_biotransformer3.markdown_link_biotransf and its companions

vars == <<pc, list_compound_name, list_smiles, extra_compound_names,
          extra_compound_smiles, call, ret, markdown_link_sygma, markdown_link_biotransf>>

----------------------------------------------------------------------------
(* Bounds of the model *)

\* rows of a table handed directly to prepare_for_virtual_metabolization
MaxRows == 3
\* rows of a table handed directly to one of the two filters
MaxFilterRows == 2
\* rows of each input table of a run of main
MaxPipeRows == 2

----------------------------------------------------------------------------
(* Strings *)

NaN == <<"NaN">>

nan == <<"n", "a", "n">>

CCO == <<"C", "C", "O">>
CCN == <<"C", "C", "N">>
CaCO == <<"C", "@", "C", "O">>
CaaCO == <<"C", "@", "@", "C", "O">>
CCO_Na == <<"C", "C", "O", ".", "N">>

\* Python: pat in s, for strings
Contains(s, pat) ==
    \E i \in 0..(Len(s) - Len(pat)) : SubSeq(s, i + 1, i + Len(pat)) = pat

\* Python: s.startswith(pat)
StartsWith(s, pat) ==
    Len(s) >= Len(pat) /\ SubSeq(s, 1, Len(pat)) = pat

\* Python: s.replace(c, '') for a one-character c
Remove(s, c) == SelectSeq(s, LAMBDA x : x # c)

\* Python: s.split(c) for a one-character c
RECURSIVE Split(_, _)
Split(s, c) ==
    IF \A i \in 1..Len(s) : s[i] # c
    THEN <<s>>
    ELSE LET k == CHOOSE i \in 1..Len(s) :
                      s[i] = c /\ \A j \in 1..(i - 1) : s[j] # c
         IN  <<SubSeq(s, 1, k - 1)>> \o Split(SubSeq(s, k + 1, Len(s)), c)

\* pandas Series.str.contains(pat, na=False) for a pattern of literals
\* joined by '|' (the default --db_links is 'KEGG|HMDB'); NaN counts as no match
StrContains(s, pat) ==
    /\ s # NaN
    /\ \E k \in 1..Len(Split(pat, "|")) : Contains(s, Split(pat, "|")[k])

\* the first longest fragment of a structure written with '.' separators
remove_salt_from_SMILES(s) ==
    LET parts == Split(s, ".")
        k == CHOOSE i \in 1..Len(parts) :
                 /\ \A j \in 1..Len(parts) : Len(parts[j]) <= Len(parts[i])
                 /\ \A j \in 1..(i - 1) : Len(parts[j]) < Len(parts[i])
    IN  parts[k]

\* append_to_list_if_not_present, the two cleaning statements of its loop
cleaned_smiles(s) ==
    Remove(IF Contains(s, <<".">>) THEN remove_salt_from_SMILES(s) ELSE s, "@")

----------------------------------------------------------------------------
(* Tables *)

\* the rows of a freshly read table named label, each tagged with its origin
Table(rows, label) ==
    [i \in 1..Len(rows) |-> rows[i] @@ [src |-> <<label, i>>]]

\* sequences over S of length at most n
SeqUpTo(S, n) == UNION {[1..k -> S] : k \in 0..n}

\* list(df[col]), each value with the origin of its row
Column(df, col) == [i \in 1..Len(df) |-> [v |-> df[i][col], src |-> df[i].src]]

\* the plain values of a list
Values(list) == [i \in 1..Len(list) |-> list[i].v]

\* drop_duplicates changed: nothing is dropped
drop_duplicates_keeps_all(df, col) == df

\* pandas: df.drop_duplicates(subset=col, keep='first')
drop_duplicates(df, col) ==
    LET keep == {i \in 1..Len(df) : \A j \in 1..(i - 1) : df[j][col] # df[i][col]}
        RECURSIVE Pick(_)
        Pick(i) == IF i > Len(df) THEN <<>>
                   ELSE (IF i \in keep THEN <<df[i]>> ELSE <<>>) \o Pick(i + 1)
    IN  Pick(1)

\* pandas: df.sort_values(by=[col], ascending=False).  The default sort kind is
\* quicksort, which does not promise the order of rows with equal keys: every
\* descending arrangement of the rows is a possible result.
sort_values_desc(df, col) ==
    LET n == Len(df)
        perms == {p \in [1..n -> 1..n] : \A i, j \in 1..n : i # j => p[i] # p[j]}
    IN  {[i \in 1..n |-> df[p[i]]] : p \in
            {q \in perms : \A i \in 1..n : \A j \in (i + 1)..n :
                               df[q[i]][col][1] >= df[q[j]][col][1]}}

----------------------------------------------------------------------------
(* prepare_virtual_metabolization.py: the functions *)

\* Optional arguments.  The code uses False for "not supplied"; main passes None
\* for an absent --compound_name_to_keep.
\* False where a number, a string, a list is expected
NoNumber == [given |-> FALSE, v |-> 0]
NoString == [given |-> FALSE, v |-> <<>>]
NoList == [given |-> FALSE, v |-> {}]
Supplied(x) == [given |-> TRUE, v |-> x]

\* Python: x != False for a number or False (0 == False in Python)
NeFalseNum(x) == x.given /\ x.v # 0

\* Python: x != 0 for a number or False (False == 0 in Python)
NeZeroNum(x) == x.given /\ x.v # 0

\* Python: x != False for a list or a string or False
NeFalseObj(x) == x.given

\* pandas: series >= threshold; a missing number compares False
Geq(cell, threshold) == cell # <<>> /\ cell[1] >= threshold

\* NotNullStructure changed: only missing cells are dropped
NotNullStructure_missing_only(s) == s # NaN

\* df[col].str.contains('nan') == False: True exactly for the string cells
\* that do not contain 'nan' (a missing cell gives NaN, and NaN == False is False)
NotNullStructure(s) == s # NaN /\ ~Contains(s, nan)

\* whether the table has the column (any row tells: all rows have the same columns)
HasColumn(df, col) == df # <<>> /\ col \in DOMAIN df[1]

\* try_sort_MQScore changed: the sort is skipped although the column exists
try_sort_MQScore_skipped(df) == {df}

\* try: df.sort_values(by=['MQScore'], ascending=False) except: pass
try_sort_MQScore(df) ==
    IF HasColumn(df, "MQScore") THEN sort_values_desc(df, "MQScore") ELSE {df}

\* prepare_for_virtual_metabolization changed: the sort is done before the test
\* of drop_duplicated_structure, for every call
prepare_for_virtual_metabolization_sort_first(df, smiles_planar_column, smiles_column, drop_duplicated_structure, use_planar_structure) ==
    LET col == IF use_planar_structure THEN smiles_planar_column ELSE smiles_column
        kept == SelectSeq(df, LAMBDA r : NotNullStructure(r[col]))
    IN  IF drop_duplicated_structure
        THEN {drop_duplicates(sorted, col) : sorted \in try_sort_MQScore(kept)}
        ELSE try_sort_MQScore(kept)

\* prepare_for_virtual_metabolization: the tables it may return.  col is the
\* structure column of the branch taken.
prepare_for_virtual_metabolization(df, smiles_planar_column, smiles_column, drop_duplicated_structure, use_planar_structure) ==
    LET col == IF use_planar_structure THEN smiles_planar_column ELSE smiles_column
        kept == SelectSeq(df, LAMBDA r : NotNullStructure(r[col]))
    IN  IF drop_duplicated_structure
        THEN {drop_duplicates(sorted, col) : sorted \in try_sort_MQScore(kept)}
        ELSE {kept}

\* assign_list changed: the new entries are added to the old ones
assign_list_extends(old, new) == old \o new

\* prepare_for_virtual_metabolization.list_compound_name = list_compound_name
\* (and the same for list_smiles): the new list given the old one
assign_list(old, new) == new

\* df_annotations_filtering changed: both allow-lists given select the rows
\* that match both
df_annotations_filtering_both_match(df_annotations, compound_name, tags) ==
    IF NeFalseObj(compound_name) /\ NeFalseObj(tags)
    THEN SelectSeq(df_annotations,
                   LAMBDA r : r.Compound_Name \in compound_name.v /\ r.tags \in tags.v)
    ELSE IF NeFalseObj(compound_name)
    THEN SelectSeq(df_annotations, LAMBDA r : r.Compound_Name \in compound_name.v)
    ELSE IF NeFalseObj(tags)
    THEN SelectSeq(df_annotations, LAMBDA r : r.tags \in tags.v)
    ELSE df_annotations

\* df_annotations_filtering(df_annotations, compound_name, tags)
df_annotations_filtering(df_annotations, compound_name, tags) ==
    LET df_annotations_name ==
            SelectSeq(df_annotations, LAMBDA r : r.Compound_Name \in compound_name.v)
        df_annotations_tags ==
            SelectSeq(df_annotations, LAMBDA r : r.tags \in tags.v)
    IN  IF NeFalseObj(compound_name) /\ NeFalseObj(tags)
        THEN df_annotations_name \o df_annotations_tags
        ELSE IF NeFalseObj(compound_name) THEN df_annotations_name
        ELSE IF NeFalseObj(tags) THEN df_annotations_tags
        ELSE df_annotations

\* df_csifingerid_cosmic_annotations_filtering(table, zodiac_score, confidence_score, links)
df_csifingerid_cosmic_annotations_filtering(compound_identification_table, zodiac_score, confidence_score, links) ==
    LET t1 == IF NeFalseNum(zodiac_score)
              THEN SelectSeq(compound_identification_table,
                             LAMBDA r : Geq(r.ZodiacScore, zodiac_score.v))
              ELSE compound_identification_table
        t2 == IF NeZeroNum(confidence_score)
              THEN SelectSeq(t1, LAMBDA r : Geq(r.ConfidenceScore, confidence_score.v))
              ELSE t1
    IN  IF NeFalseObj(links)
        THEN SelectSeq(t2, LAMBDA r : StrContains(r.links, links.v))
        ELSE t2

\* load_extra_compounds: pd.read_csv(path, sep='\t') takes the first line of
\* the file as the header, and the table holds the lines after it
read_csv_rows(file) == SubSeq(file, 2, Len(file))

\* append_to_list_if_not_present: the two lists after the loop over
\* zip(extra_list_names, extra_list_smiles), from position k on
RECURSIVE append_from(_, _, _, _, _)
append_from(base_list_names, base_list_smiles, extra_list_names, extra_list_smiles, k) ==
    IF k > Len(extra_list_names) \/ k > Len(extra_list_smiles)
    THEN <<base_list_names, base_list_smiles>>
    ELSE LET n == extra_list_names[k]
             s == extra_list_smiles[k]
             c == cleaned_smiles(s.v)
         IN  IF \A i \in 1..Len(base_list_smiles) : base_list_smiles[i].v # c
             THEN append_from(Append(base_list_names, n),
                              Append(base_list_smiles, [v |-> c, src |-> s.src]),
                              extra_list_names, extra_list_smiles, k + 1)
             ELSE append_from(base_list_names, base_list_smiles,
                              extra_list_names, extra_list_smiles, k + 1)

\* append_to_list_if_not_present changed: the name is appended outside the test
RECURSIVE append_name_always(_, _, _, _, _)
append_name_always(base_list_names, base_list_smiles, extra_list_names, extra_list_smiles, k) ==
    IF k > Len(extra_list_names) \/ k > Len(extra_list_smiles)
    THEN <<base_list_names, base_list_smiles>>
    ELSE LET n == extra_list_names[k]
             s == extra_list_smiles[k]
             c == cleaned_smiles(s.v)
         IN  IF \A i \in 1..Len(base_list_smiles) : base_list_smiles[i].v # c
             THEN append_name_always(Append(base_list_names, n),
                                     Append(base_list_smiles, [v |-> c, src |-> s.src]),
                                     extra_list_names, extra_list_smiles, k + 1)
             ELSE append_name_always(Append(base_list_names, n), base_list_smiles,
                                     extra_list_names, extra_list_smiles, k + 1)

append_to_list_name_always(base_list_names, base_list_smiles, extra_list_names, extra_list_smiles) ==
    append_name_always(base_list_names, base_list_smiles, extra_list_names, extra_list_smiles, 1)

\* append_to_list_if_not_present changed: the test reads a copy of the base list
\* taken before the loop, so it misses what the loop itself appended
RECURSIVE append_test_copy(_, _, _, _, _, _)
append_test_copy(copy, base_list_names, base_list_smiles, extra_list_names, extra_list_smiles, k) ==
    IF k > Len(extra_list_names) \/ k > Len(extra_list_smiles)
    THEN <<base_list_names, base_list_smiles>>
    ELSE LET n == extra_list_names[k]
             s == extra_list_smiles[k]
             c == cleaned_smiles(s.v)
         IN  IF \A i \in 1..Len(copy) : copy[i].v # c
             THEN append_test_copy(copy, Append(base_list_names, n),
                                   Append(base_list_smiles, [v |-> c, src |-> s.src]),
                                   extra_list_names, extra_list_smiles, k + 1)
             ELSE append_test_copy(copy, base_list_names, base_list_smiles,
                                   extra_list_names, extra_list_smiles, k + 1)

append_to_list_test_copy(base_list_names, base_list_smiles, extra_list_names, extra_list_smiles) ==
    append_test_copy(base_list_smiles, base_list_names, base_list_smiles, extra_list_names, extra_list_smiles, 1)

append_to_list_if_not_present(base_list_names, base_list_smiles, extra_list_names, extra_list_smiles) ==
    append_from(base_list_names, base_list_smiles, extra_list_names, extra_list_smiles, 1)

\* main: list[:max_compounds_debug]
truncate(list, n) ==
    IF n >= 0 THEN SubSeq(list, 1, IF n < Len(list) THEN n ELSE Len(list))
    ELSE SubSeq(list, 1, IF Len(list) + n > 0 THEN Len(list) + n ELSE 0)

\* df[inchi_column].str.startswith('InChI', na=False) of one cell: a missing
\* cell counts as no match
startswith_InChI(cell) == cell # NaN /\ StartsWith(cell, <<"I", "n", "C", "h", "I">>)

\* line 38, df_annotations[inchi_column].str: what the column lookup and the
\* string accessor raise.  A table without the column gives KeyError; a column
\* of dtype float64 (every cell missing) has no string accessor (AttributeError).
\* An empty table has its columns, of dtype object.
str_accessor(df_annotations, inchi_column, dtype) ==
    IF df_annotations # <<>> /\ ~HasColumn(df_annotations, inchi_column) THEN "KeyError"
    ELSE IF dtype = "float64" THEN "AttributeError"
    ELSE "ok"

\* line 38: the rows reported as lacking a structure
df_annotations_missing_structure(df_annotations, inchi_column) ==
    SelectSeq(df_annotations, LAMBDA r : ~startswith_InChI(r[inchi_column]))

\* get_info_gnps_annotations changed: the mask of line 58 is negated as on line 38
get_info_gnps_annotations_negated(df_annotations, inchi_column) ==
    SelectSeq(df_annotations, LAMBDA r : ~startswith_InChI(r[inchi_column]))

\* get_info_gnps_annotations: the rows whose identifier starts with 'InChI'
\* (line 58), for a table that has the column as strings
get_info_gnps_annotations(df_annotations, inchi_column) ==
    SelectSeq(df_annotations,
              LAMBDA r : startswith_InChI(r[inchi_column]))

\* load_csifingerid_cosmic_annotations: df['name'].replace(np.nan, 'no_name')
load_csifingerid_cosmic_annotations(df) ==
    [i \in 1..Len(df) |->
        IF df[i].name = NaN THEN [df[i] EXCEPT !.name = <<"no_name">>] ELSE df[i]]

----------------------------------------------------------------------------
(* vm_NAP_processing.py *)

\* --compound_name_to_keep absent: None
None == [given |-> FALSE, v |-> {}]

\* apply_filtering(df_annotations, compound_name_to_keep): returns the table for
\* None; for a non-empty list it reads the undefined name f_annotations_filtered
\* (NameError); for an empty list no branch returns, so the result is None
apply_filtering(df_annotations, compound_name_to_keep) ==
    IF compound_name_to_keep = None
    THEN [kind |-> "table", df |-> df_annotations]
    ELSE IF compound_name_to_keep.v # {}
    THEN [kind |-> "NameError", df |-> <<>>]
    ELSE [kind |-> "None", df |-> <<>>]

----------------------------------------------------------------------------
(* Input universes *)

InChI1 == <<"I", "n", "C", "h", "I", "=", "1">>

\* (Consol_SMILES, Consol_SMILES_iso) of an annotation: two stereo forms of one
\* planar structure, and a null-sentinel in either column
StructPairs == {<<CaCO, CCO>>, <<CaaCO, CCO>>, <<nan, CCN>>, <<CCN, nan>>}

\* annotation rows handed directly to prepare_for_virtual_metabolization
ScoredRows ==
    {[Compound_Name |-> n, Consol_SMILES |-> p[1], Consol_SMILES_iso |-> p[2], MQScore |-> q] :
        n \in {<<"x">>, <<"y">>}, p \in StructPairs, q \in {<<1>>, <<2>>}}

\* the same rows of a table without the MQScore column
UnscoredRows ==
    {[Compound_Name |-> n, Consol_SMILES |-> p[1], Consol_SMILES_iso |-> p[2]] :
        n \in {<<"x">>, <<"y">>}, p \in StructPairs}

\* consolidated annotation rows of a run of main
PipeGnpsRows ==
    {[Compound_Name |-> <<"x">>, Consol_InChI |-> InChI1, Consol_SMILES |-> CaCO,
      Consol_SMILES_iso |-> CCO, MQScore |-> <<2>>],
     [Compound_Name |-> <<"y">>, Consol_InChI |-> InChI1, Consol_SMILES |-> CaaCO,
      Consol_SMILES_iso |-> CCO, MQScore |-> <<1>>],
     [Compound_Name |-> <<"y">>, Consol_InChI |-> InChI1, Consol_SMILES |-> nan,
      Consol_SMILES_iso |-> nan, MQScore |-> <<2>>],
     [Compound_Name |-> <<"x">>, Consol_InChI |-> nan, Consol_SMILES |-> nan,
      Consol_SMILES_iso |-> nan, MQScore |-> <<1>>]}

\* --compound_name_to_keep: absent, given without a value, given with names
KeepArgs == {None, Supplied({}), Supplied({<<"x">>})}

\* rows of the compound-identification file of a run of main
PipeSiriusRows ==
    {[id |-> <<"1">>, ConfidenceScore |-> <<1>>, ZodiacScore |-> <<1>>, name |-> <<"s">>,
      links |-> <<"K">>, smiles |-> CCO],
     [id |-> <<"2">>, ConfidenceScore |-> <<>>, ZodiacScore |-> <<0>>, name |-> NaN,
      links |-> <<"H">>, smiles |-> CCN],
     [id |-> <<"3">>, ConfidenceScore |-> <<0>>, ZodiacScore |-> <<>>, name |-> <<"t">>,
      links |-> NaN, smiles |-> CCO],
     [id |-> <<"4">>, ConfidenceScore |-> <<1>>, ZodiacScore |-> <<1>>, name |-> <<"u">>,
      links |-> <<"P">>, smiles |-> NaN]}

\* --zodiac_score, --confidence_score (floats, here in tenths), --db_links
ScoreArgs == {0, 1}
LinkArgs == {<<"K">>, <<"K", "|", "H">>}

\* lines of the extra-compounds file: column 0 and column 1
ExtraLines ==
    {[c0 |-> <<"y">>, c1 |-> CCO], [c0 |-> <<"z">>, c1 |-> CCN],
     [c0 |-> <<"w">>, c1 |-> CaCO], [c0 |-> <<"v">>, c1 |-> CCO_Na],
     [c0 |-> <<"u">>, c1 |-> <<"C", "N">>], [c0 |-> <<"t">>, c1 |-> NaN]}

\* lines of an extra-compounds file that holds names only (no tab, one column)
NameOnlyLines == {[c0 |-> <<"y">>], [c0 |-> <<"t">>]}

\* --max_compounds_debug
DebugCounts == {-1, 0, 1, 3}

\* what the two function attributes may hold from an earlier run in the process
Leftover ==
    {<<<<>>, <<>>>>,
     <<<<[v |-> <<"old">>, src |-> <<"earlier", 1>>]>>,
       <<[v |-> CCN, src |-> <<"earlier", 1>>]>>>>}

\* what the result attributes of run_biotransformer3 may hold when main starts:
\* nothing in a fresh process; after an earlier run, the results of that run if
\* it ran BioTransformer
LeftoverLinks(l) == IF l[1] = <<>> THEN {"unset"} ELSE {"unset", "earlier"}

----------------------------------------------------------------------------
(* main(args): one action per stage of the run *)

NoCall == [fn |-> "none"]

Init ==
    /\ pc = "start"
    /\ \E l \in Leftover :
          /\ list_compound_name = l[1]
          /\ list_smiles = l[2]
          /\ markdown_link_biotransf \in LeftoverLinks(l)
    /\ markdown_link_sygma = "unset"
    /\ extra_compound_names = <<>>
    /\ extra_compound_smiles = <<>>
    /\ call = NoCall
    /\ ret = <<>>

\* lines 130-131: the accumulator is emptied
Reset ==
    /\ pc = "start"
    /\ list_compound_name' = <<>>
    /\ list_smiles' = <<>>
    /\ pc' = "gnps"
    /\ UNCHANGED <<extra_compound_names, extra_compound_smiles, call, ret,
                   markdown_link_sygma, markdown_link_biotransf>>

\* lines 135-162: the molecular-networking source, with a job id
GnpsStage ==
    /\ pc = "gnps"
    /\ \E rows \in SeqUpTo(PipeGnpsRows, MaxPipeRows), keep \in KeepArgs, planar \in BOOLEAN :
          LET df_annotations == get_info_gnps_annotations(Table(rows, "gnps"), "Consol_InChI")
              filtered == apply_filtering(df_annotations, keep)
          IN  IF filtered.kind = "table"
              THEN \E out \in prepare_for_virtual_metabolization(
                                  filtered.df, "Consol_SMILES_iso", "Consol_SMILES", TRUE, planar) :
                      /\ list_compound_name' =
                             assign_list(list_compound_name, Column(out, "Compound_Name"))
                      /\ list_smiles' =
                             assign_list(list_smiles,
                                         Column(out, IF planar THEN "Consol_SMILES_iso"
                                                               ELSE "Consol_SMILES"))
                      /\ call' = [fn |-> "prepare_for_virtual_metabolization",
                                  source |-> "gnps", df |-> filtered.df,
                                  validated |-> df_annotations,
                                  compound_name_to_keep |-> keep,
                                  drop_duplicated_structure |-> TRUE,
                                  use_planar_structure |-> planar,
                                  old_list_smiles |-> list_smiles]
                      /\ ret' = out
                      /\ pc' = "sirius"
              ELSE \* apply_filtering raised, or returned None and the selector raised
                   /\ call' = [fn |-> "apply_filtering", result |-> filtered.kind,
                               validated |-> df_annotations,
                               compound_name_to_keep |-> keep]
                   /\ pc' = "raised"
                   /\ UNCHANGED <<list_compound_name, list_smiles, ret>>
    /\ UNCHANGED <<extra_compound_names, extra_compound_smiles,
                   markdown_link_sygma, markdown_link_biotransf>>

\* lines 166-167: job_id is 'false'
GnpsSkip ==
    /\ pc = "gnps"
    /\ pc' = "sirius"
    /\ UNCHANGED <<list_compound_name, list_smiles, extra_compound_names,
                   extra_compound_smiles, call, ret,
                   markdown_link_sygma, markdown_link_biotransf>>

\* lines 170-190: the compound-identification source, the file given and present
SiriusStage ==
    /\ pc = "sirius"
    /\ \E rows \in SeqUpTo(PipeSiriusRows, MaxPipeRows),
          z \in ScoreArgs, c \in ScoreArgs, links \in LinkArgs :
          LET df_sirius == load_csifingerid_cosmic_annotations(Table(rows, "sirius"))
              df_score_filtered ==
                  df_csifingerid_cosmic_annotations_filtering(
                      df_sirius, Supplied(z), Supplied(c), NoString)
              df_db_links_filtered ==
                  df_csifingerid_cosmic_annotations_filtering(
                      df_sirius, NoNumber, NoNumber, Supplied(links))
              both == df_score_filtered \o df_db_links_filtered
          IN  \E out \in prepare_for_virtual_metabolization(both, "smiles", "none", TRUE, TRUE) :
                  /\ list_compound_name' = assign_list(list_compound_name, Column(out, "name"))
                  /\ list_smiles' = assign_list(list_smiles, Column(out, "smiles"))
                  /\ call' = [fn |-> "prepare_for_virtual_metabolization",
                              source |-> "sirius", df |-> both,
                              drop_duplicated_structure |-> TRUE,
                              use_planar_structure |-> TRUE,
                              old_list_smiles |-> list_smiles]
                  /\ ret' = out
    /\ pc' = "extra"
    /\ UNCHANGED <<extra_compound_names, extra_compound_smiles,
                   markdown_link_sygma, markdown_link_biotransf>>

\* lines 172-173 and 191-192: no file given, or the file does not exist
SiriusSkip ==
    /\ pc = "sirius"
    /\ pc' = "extra"
    /\ UNCHANGED <<list_compound_name, list_smiles, extra_compound_names,
                   extra_compound_smiles, call, ret,
                   markdown_link_sygma, markdown_link_biotransf>>

\* line 198: load_extra_compounds(path).  An empty file makes read_csv raise
\* (line 137); a file of one column makes iloc[:,1] raise (line 139), after the
\* names were stored.  The warning of lines 141-142 compares the lengths of the
\* two lists.
LoadExtra ==
    /\ pc = "extra"
    /\ \E lines \in SeqUpTo(ExtraLines, MaxPipeRows + 1) \cup SeqUpTo(NameOnlyLines, MaxPipeRows) :
          LET file == Table(lines, "extra")
              extra_compounds_table == read_csv_rows(file)
              names == Column(extra_compounds_table, "c0")
              smiles == Column(extra_compounds_table, "c1")
          IN  IF file = <<>>
              THEN /\ pc' = "raised"
                   /\ call' = [fn |-> "load_extra_compounds", file |-> file,
                               error |-> "EmptyDataError", integrity_warning |-> FALSE]
                   /\ UNCHANGED <<extra_compound_names, extra_compound_smiles>>
              ELSE IF ~HasColumn(file, "c1")
              THEN /\ extra_compound_names' = names
                   /\ pc' = "raised"
                   /\ call' = [fn |-> "load_extra_compounds", file |-> file,
                               error |-> "IndexError", integrity_warning |-> FALSE]
                   /\ UNCHANGED extra_compound_smiles
              ELSE /\ extra_compound_names' = names
                   /\ extra_compound_smiles' = smiles
                   /\ call' = [fn |-> "load_extra_compounds", file |-> file,
                               error |-> "none",
                               integrity_warning |-> Len(names) # Len(smiles)]
                   /\ pc' = "merge"
    /\ UNCHANGED <<list_compound_name, list_smiles, ret,
                   markdown_link_sygma, markdown_link_biotransf>>

\* lines 199-202: append_to_list_if_not_present on the two function attributes.
\* A missing structure cell is a float, and '.' in s raises on it: the loop
\* stops there, with what it appended before.
AppendExtra ==
    /\ pc = "merge"
    /\ LET missing == {k \in 1..Len(extra_compound_smiles) : extra_compound_smiles[k].v = NaN}
           done == IF missing = {} THEN Len(extra_compound_smiles)
                   ELSE (CHOOSE k \in missing : \A m \in missing : k <= m) - 1
           merged == append_to_list_if_not_present(
                         list_compound_name, list_smiles,
                         SubSeq(extra_compound_names, 1, done),
                         SubSeq(extra_compound_smiles, 1, done))
       IN  /\ list_compound_name' = merged[1]
           /\ list_smiles' = merged[2]
           /\ call' = [fn |-> "append_to_list_if_not_present",
                       base_list_names |-> list_compound_name,
                       base_list_smiles |-> list_smiles]
           /\ pc' = IF missing = {} THEN "debug" ELSE "raised"
    /\ UNCHANGED <<extra_compound_names, extra_compound_smiles, ret,
                   markdown_link_sygma, markdown_link_biotransf>>

\* lines 203-204: no extra-compounds file given
ExtraSkip ==
    /\ pc = "extra"
    /\ pc' = "debug"
    /\ UNCHANGED <<list_compound_name, list_smiles, extra_compound_names,
                   extra_compound_smiles, call, ret,
                   markdown_link_sygma, markdown_link_biotransf>>

\* lines 206-209: --debug
DebugTruncate ==
    /\ pc = "debug"
    /\ \E n \in DebugCounts :
          /\ list_compound_name' = truncate(list_compound_name, n)
          /\ list_smiles' = truncate(list_smiles, n)
          /\ call' = [fn |-> "debug", max_compounds_debug |-> n]
    /\ pc' = "curated"
    /\ UNCHANGED <<extra_compound_names, extra_compound_smiles, ret,
                   markdown_link_sygma, markdown_link_biotransf>>

\* no --debug
DebugSkip ==
    /\ pc = "debug"
    /\ pc' = "curated"
    /\ UNCHANGED <<list_compound_name, list_smiles, extra_compound_names,
                   extra_compound_smiles, call, ret,
                   markdown_link_sygma, markdown_link_biotransf>>

\* run_sygma_batch(list_smiles, list_compound_name, ...): it leaves its results
\* as attributes on itself
run_sygma_batch(links) == "this_run"

\* prepare_for_bio3(type_of_biotransformation, list_smiles): an external set-up
\* (downloads, sub-processes) that completes or raises
prepare_for_bio3 == {"done", "Exception"}

\* run_biotransformer3(mode, list_smiles, list_compound_name, ...): it leaves its
\* results as attributes on itself
run_biotransformer3(links) == "this_run"

\* lines 211-229: SyGMa (--run_sygma is store_true with default True: always on),
\* then its result attributes are displayed
SygmaStage ==
    /\ pc = "curated"
    /\ markdown_link_sygma' = run_sygma_batch(markdown_link_sygma)
    /\ call' = [fn |-> "run_sygma_batch", list_smiles |-> list_smiles]
    /\ pc' = "biotransformer"
    /\ UNCHANGED <<list_compound_name, list_smiles, extra_compound_names,
                   extra_compound_smiles, ret, markdown_link_biotransf>>

\* lines 232-268 with --run_biotransformer: the preparation in its try/except,
\* run_biotransformer3 when the preparation completed, then (line 260 on, in
\* either case) the result attributes of run_biotransformer3 are read: reading
\* an attribute that was never set raises AttributeError
BiotransformerStage ==
    /\ pc = "biotransformer"
    /\ \E prep \in prepare_for_bio3 :
          LET preparation == prep = "done"
              links == IF preparation THEN run_biotransformer3(markdown_link_biotransf)
                       ELSE markdown_link_biotransf
          IN  /\ markdown_link_biotransf' = links
              /\ call' = [fn |-> "prepare_for_bio3", result |-> prep,
                          error_printed |-> ~preparation,
                          run_biotransformer3_called |-> preparation]
              /\ pc' = IF links = "unset" THEN "raised" ELSE "finished"
    /\ UNCHANGED <<list_compound_name, list_smiles, extra_compound_names,
                   extra_compound_smiles, ret, markdown_link_sygma>>

\* lines 232 and 267-269 without --run_biotransformer: the final log
BiotransformerSkip ==
    /\ pc = "biotransformer"
    /\ pc' = "finished"
    /\ UNCHANGED <<list_compound_name, list_smiles, extra_compound_names,
                   extra_compound_smiles, call, ret, markdown_link_sygma,
                   markdown_link_biotransf>>

Next ==
    \/ Reset
    \/ GnpsStage
    \/ GnpsSkip
    \/ SiriusStage
    \/ SiriusSkip
    \/ LoadExtra
    \/ AppendExtra
    \/ ExtraSkip
    \/ DebugTruncate
    \/ DebugSkip
    \/ SygmaStage
    \/ BiotransformerStage
    \/ BiotransformerSkip

Spec == Init /\ [][Next]_vars

----------------------------------------------------------------------------
(* prepare_for_virtual_metabolization called directly, on any table and with *)
(* any combination of its two options                                        *)

InitPrepare ==
    /\ markdown_link_sygma = "unset"
    /\ markdown_link_biotransf = "unset"
    /\ pc = "call"
    /\ list_compound_name = <<>>
    /\ list_smiles = <<>>
    /\ extra_compound_names = <<>>
    /\ extra_compound_smiles = <<>>
    /\ \E rows \in SeqUpTo(ScoredRows, MaxRows) \cup SeqUpTo(UnscoredRows, MaxRows),
          d \in BOOLEAN, p \in BOOLEAN :
          call = [fn |-> "prepare_for_virtual_metabolization", source |-> "direct",
                  df |-> Table(rows, "df"), drop_duplicated_structure |-> d,
                  use_planar_structure |-> p, old_list_smiles |-> <<>>]
    /\ ret = <<>>

\* the structure column the call keys on
KeyColumn == IF call.use_planar_structure THEN "Consol_SMILES_iso" ELSE "Consol_SMILES"

CallPrepare ==
    /\ pc = "call"
    /\ \E out \in prepare_for_virtual_metabolization(
                      call.df, "Consol_SMILES_iso", "Consol_SMILES",
                      call.drop_duplicated_structure, call.use_planar_structure) :
          /\ list_compound_name' = assign_list(list_compound_name, Column(out, "Compound_Name"))
          /\ list_smiles' = assign_list(list_smiles, Column(out, KeyColumn))
          /\ ret' = out
    /\ pc' = "returned"
    /\ UNCHANGED <<extra_compound_names, extra_compound_smiles, call,
                   markdown_link_sygma, markdown_link_biotransf>>

NextPrepare == CallPrepare

SpecPrepare == InitPrepare /\ [][NextPrepare]_vars

----------------------------------------------------------------------------
(* Properties of prepare_for_virtual_metabolization (under SpecPrepare) *)

Returned == pc = "returned" /\ call.fn = "prepare_for_virtual_metabolization"

\* the rows of the input table whose key structure is s
RowsWith(s) == {i \in 1..Len(call.df) : call.df[i][KeyColumn] = s}

\* C1 as stated: with deduplication enabled, no two entries of the output have
\* structures that are equal after normalization (salt fragments removed, '@'
\* stripped), for the planar and for the full-stereo key alike.
C1_NoEqualNormalizedStructures ==
    (Returned /\ call.drop_duplicated_structure) =>
        \A i, j \in 1..Len(list_smiles) :
            i # j => cleaned_smiles(list_smiles[i].v) # cleaned_smiles(list_smiles[j].v)

\* C1 as amended: with deduplication enabled, no two entries of the output have
\* the same value of the chosen structure field (compared as the strings they
\* are), for the planar and for the full-stereo key alike.
C1_NoEqualStructureValues ==
    (Returned /\ call.drop_duplicated_structure) =>
        \A i, j \in 1..Len(list_smiles) :
            i # j => list_smiles[i].v # list_smiles[j].v

\* a deduplicating call on the full-stereo key whose input repeats a structure
\* and whose output keeps two entries
C1_Witness ==
    /\ Returned
    /\ call.drop_duplicated_structure
    /\ ~call.use_planar_structure
    /\ \E i, j \in 1..Len(call.df) :
          i # j /\ call.df[i][KeyColumn] = call.df[j][KeyColumn]
                /\ NotNullStructure(call.df[i][KeyColumn])
    /\ Len(list_smiles) = 2

\* C2: with deduplication enabled and a score column, every non-null structure
\* of the input keeps exactly one row, that row has the maximum score among the
\* input rows with the structure, and the output is in descending score order.
C2_BestScoreKept ==
    (Returned /\ call.drop_duplicated_structure /\ HasColumn(call.df, "MQScore")) =>
        /\ \A i \in 1..Len(call.df) :
              NotNullStructure(call.df[i][KeyColumn]) =>
                  \E k \in 1..Len(ret) :
                      /\ ret[k][KeyColumn] = call.df[i][KeyColumn]
                      /\ ret[k].MQScore[1] >= call.df[i].MQScore[1]
                      /\ \A m \in 1..Len(ret) :
                            ret[m][KeyColumn] = ret[k][KeyColumn] => m = k
        /\ \A k \in 1..Len(ret) :
              /\ \E i \in RowsWith(ret[k][KeyColumn]) : call.df[i] = ret[k]
              /\ list_smiles[k] = [v |-> ret[k][KeyColumn], src |-> ret[k].src]
              /\ list_compound_name[k] = [v |-> ret[k].Compound_Name, src |-> ret[k].src]
        /\ Len(list_smiles) = Len(ret) /\ Len(list_compound_name) = Len(ret)
        /\ \A k, m \in 1..Len(ret) : k < m => ret[k].MQScore[1] >= ret[m].MQScore[1]

\* the lower-scoring row of a structure comes first in the input, the row of
\* another structure follows, and the higher-scoring row was kept
C2_Witness ==
    /\ Returned
    /\ call.drop_duplicated_structure
    /\ HasColumn(call.df, "MQScore")
    /\ Len(call.df) = 3
    /\ call.df[1][KeyColumn] = call.df[2][KeyColumn]
    /\ call.df[1].MQScore = <<1>> /\ call.df[2].MQScore = <<2>>
    /\ call.df[3][KeyColumn] # call.df[1][KeyColumn]
    /\ Len(ret) = 2
    /\ ret[1] = call.df[2]

\* C7: a row whose chosen structure field equals the null-sentinel supplies no
\* entry of either output list, whatever the two options are.
C7_NullStructureExcluded ==
    Returned =>
        \A i \in 1..Len(call.df) :
            call.df[i][KeyColumn] = nan =>
                /\ \A k \in 1..Len(list_smiles) : list_smiles[k].src # call.df[i].src
                /\ \A k \in 1..Len(list_compound_name) :
                      list_compound_name[k].src # call.df[i].src
                /\ \A k \in 1..Len(list_smiles) : list_smiles[k].v # nan

\* a call without deduplication on the full-stereo key, whose input holds a
\* null-sentinel row between two rows that are kept
C7_Witness ==
    /\ Returned
    /\ ~call.drop_duplicated_structure
    /\ ~call.use_planar_structure
    /\ Len(call.df) = 3
    /\ call.df[2][KeyColumn] = nan
    /\ Len(list_smiles) = 2

\* the (name, structure) pairs returned are all the non-null rows of the input
AllNonNullRows ==
    /\ Len(list_smiles) = Cardinality({i \in 1..Len(call.df) : call.df[i][KeyColumn] # nan})
    /\ \A i \in 1..Len(call.df) :
          call.df[i][KeyColumn] # nan =>
              \E k \in 1..Len(list_smiles) :
                  /\ list_smiles[k] = [v |-> call.df[i][KeyColumn], src |-> call.df[i].src]
                  /\ list_compound_name[k] =
                         [v |-> call.df[i].Compound_Name, src |-> call.df[i].src]

\* the pairs returned are in descending order of the score of their rows
DescendingScore ==
    \A k, m \in 1..Len(ret) : k < m => ret[k].MQScore[1] >= ret[m].MQScore[1]

\* the pairs returned are in the order of their rows in the input
InputOrder ==
    \A k, m \in 1..Len(list_smiles) :
        k < m => (/\ list_smiles[k].src[2] < list_smiles[m].src[2]
                  /\ list_compound_name[k].src[2] < list_compound_name[m].src[2])

\* C16 as stated: when the table has a score column the pairs returned are in
\* descending score order whether or not deduplication is requested, and
\* without deduplication they are all the non-null rows; when the table has no
\* score column the pairs are in input order.
C16_SortedWheneverScored ==
    Returned =>
        /\ HasColumn(call.df, "MQScore") => DescendingScore
        /\ ~call.drop_duplicated_structure => AllNonNullRows
        /\ ~HasColumn(call.df, "MQScore") => InputOrder

\* C16, amended: the sort by score is part of the deduplication.  With
\* deduplication and a score column the pairs returned are in descending score
\* order; without deduplication they are all the non-null rows in input order,
\* score column or not; without a score column they are in input order.
C16_SortedOnlyWhenDeduplicating ==
    Returned =>
        /\ (call.drop_duplicated_structure /\ HasColumn(call.df, "MQScore")) => DescendingScore
        /\ ~call.drop_duplicated_structure => (AllNonNullRows /\ InputOrder)
        /\ ~HasColumn(call.df, "MQScore") => InputOrder

\* a call without deduplication on a scored table whose rows are in ascending
\* score order: the pairs come back in that order
C16_Witness ==
    /\ Returned
    /\ ~call.drop_duplicated_structure
    /\ HasColumn(call.df, "MQScore")
    /\ Len(call.df) = 3
    /\ call.df[1].MQScore = <<1>>
    /\ call.df[2][KeyColumn] = nan
    /\ call.df[3].MQScore = <<2>>
    /\ Len(ret) = 2
    /\ ret[1] = call.df[1]
    /\ ret[2] = call.df[3]

----------------------------------------------------------------------------
(* Properties of a run of main (under Spec) *)

Merged == pc = "debug" /\ call.fn = "append_to_list_if_not_present"

\* C3 as stated: after the merge no appended entry has a normalized structure
\* equal to the normalized structure of another entry of the accumulated list,
\* also when the list was filled on the full-stereo key.
C3_NoNormalizedDuplicateAppended ==
    Merged =>
        \A i \in (Len(call.base_list_smiles) + 1)..Len(list_smiles) :
            \A j \in 1..Len(list_smiles) :
                j # i => cleaned_smiles(list_smiles[j].v) # cleaned_smiles(list_smiles[i].v)

\* the positions of the extra table that the merge must append: the normalized
\* structure is neither in the list before the merge nor at an earlier position
\* of the table
MustAppend ==
    {k \in 1..Len(extra_compound_smiles) :
        /\ \A i \in 1..Len(call.base_list_smiles) :
              call.base_list_smiles[i].v # cleaned_smiles(extra_compound_smiles[k].v)
        /\ \A m \in 1..(k - 1) :
              cleaned_smiles(extra_compound_smiles[m].v)
                  # cleaned_smiles(extra_compound_smiles[k].v)}

\* the n-th position of MustAppend, in table order
NthAppended(n) ==
    CHOOSE k \in MustAppend : Cardinality({m \in MustAppend : m < k}) = n - 1

\* C4: the merge keeps the entries it found as a prefix and appends, in table
\* order, exactly the (name, normalized structure) pairs whose normalized
\* structure is neither in the list already nor appended earlier in the merge.
C4_MergeAppendsExactlyNew ==
    Merged =>
        LET b == Len(call.base_list_smiles)
        IN  /\ Len(list_smiles) = b + Cardinality(MustAppend)
            /\ Len(list_compound_name) = Len(call.base_list_names) + Cardinality(MustAppend)
            /\ SubSeq(list_smiles, 1, b) = call.base_list_smiles
            /\ SubSeq(list_compound_name, 1, Len(call.base_list_names)) = call.base_list_names
            /\ \A n \in 1..Cardinality(MustAppend) :
                  /\ list_smiles[b + n].v = cleaned_smiles(extra_compound_smiles[NthAppended(n)].v)
                  /\ list_smiles[b + n].src = extra_compound_smiles[NthAppended(n)].src
                  /\ list_compound_name[Len(call.base_list_names) + n]
                         = extra_compound_names[NthAppended(n)]

\* the example of the claim: (['x'],['CCO']) merged with [('y','CCO'),('z','CCN')]
\* gives (['x','z'],['CCO','CCN'])
C4_Witness ==
    /\ Merged
    /\ Values(call.base_list_names) = <<<<"x">>>>
    /\ Values(call.base_list_smiles) = <<CCO>>
    /\ Values(extra_compound_names) = <<<<"y">>, <<"z">>>>
    /\ Values(extra_compound_smiles) = <<CCO, CCN>>
    /\ Values(list_compound_name) = <<<<"x">>, <<"z">>>>
    /\ Values(list_smiles) = <<CCO, CCN>>

\* C5: after the compound-identification source has been processed the
\* accumulator holds exactly the output of that call: the rows the call
\* returned, all of the second source, none carried over from the first.
C5_SecondCallReplaces ==
    (pc = "extra" /\ call.fn = "prepare_for_virtual_metabolization"
                  /\ call.source = "sirius") =>
        /\ ret \in prepare_for_virtual_metabolization(call.df, "smiles", "none", TRUE, TRUE)
        /\ list_compound_name = Column(ret, "name")
        /\ list_smiles = Column(ret, "smiles")
        /\ \A i \in 1..Len(list_smiles) : list_smiles[i].src[1] = "sirius"
        /\ \A i \in 1..Len(list_compound_name) : list_compound_name[i].src[1] = "sirius"

\* both sources were processed in the run and each produced entries
C5_Witness ==
    /\ pc = "extra"
    /\ call.fn = "prepare_for_virtual_metabolization"
    /\ call.source = "sirius"
    /\ Len(call.old_list_smiles) = 2
    /\ call.old_list_smiles[1].src[1] = "gnps"
    /\ Len(list_smiles) = 2

\* C6: after the reset and after every later stage of the run the two lists
\* have equal length and the entries at each position have the same origin.
C6_ListsAligned ==
    pc # "start" =>
        /\ Len(list_compound_name) = Len(list_smiles)
        /\ \A i \in 1..Len(list_smiles) : list_compound_name[i].src = list_smiles[i].src

\* a run through the second source, the merge and the debug truncation: the
\* truncation cut the last entry and left one of the second source and one of
\* the extra table
C6_Witness ==
    /\ pc = "curated"
    /\ call.fn = "debug"
    /\ call.max_compounds_debug = -1
    /\ Len(list_smiles) = 2
    /\ list_smiles[1].src[1] = "sirius"
    /\ list_smiles[2].src[1] = "extra"

\* C10 as stated: every row of the extra-compounds file, the first included,
\* is loaded and offered to the merge: N rows give N candidate pairs.
C10_EveryFileRowLoaded ==
    (pc = "merge" /\ call.fn = "load_extra_compounds") =>
        /\ Len(extra_compound_names) = Len(call.file)
        /\ Len(extra_compound_smiles) = Len(call.file)
        /\ \A k \in 1..Len(call.file) :
              /\ extra_compound_names[k] = [v |-> call.file[k].c0, src |-> call.file[k].src]
              /\ extra_compound_smiles[k] = [v |-> call.file[k].c1, src |-> call.file[k].src]

\* C12 as stated: when prepare_for_bio3 raises, the error is caught and
\* printed, run_biotransformer3 is not called, and main runs on to its final
\* 'finished successfully' log without raising.
C12_PreparationFailureContained ==
    (call.fn = "prepare_for_bio3" /\ call.result = "Exception") =>
        /\ call.error_printed
        /\ ~call.run_biotransformer3_called
        /\ pc = "finished"

\* the number of names and the number of structures written in the file differ
FileMismatch(file) ==
    Cardinality({i \in 1..Len(file) : file[i].c0 # NaN})
        # Cardinality({i \in 1..Len(file) : "c1" \in DOMAIN file[i] /\ file[i].c1 # NaN})

\* C14 as stated: loading an extra-compounds file whose name column and
\* structure column differ in length prints the integrity warning and does
\* not raise, and the run goes on (through the merge) with what was parsed.
C14_MismatchWarnedNotFatal ==
    /\ (call.fn = "load_extra_compounds" /\ FileMismatch(call.file)) =>
           (pc = "merge" /\ call.integrity_warning)
    /\ (/\ call.fn = "append_to_list_if_not_present"
        /\ \E k \in 1..Len(extra_compound_smiles) :
               (extra_compound_names[k].v = NaN) # (extra_compound_smiles[k].v = NaN)) =>
           pc # "raised"

\* C15 as stated: in a run on the molecular-networking source apply_filtering
\* returns a table and the run goes on to the selector; the table handed to
\* prepare_for_virtual_metabolization holds exactly the validated rows whose
\* Compound_Name is in the allow-list when one is given, and all the validated
\* rows when none is given.
C15_AllowListApplied ==
    /\ call.fn # "apply_filtering"
    /\ (/\ pc = "sirius"
        /\ call.fn = "prepare_for_virtual_metabolization"
        /\ call.source = "gnps") =>
           call.df = IF call.compound_name_to_keep.given
                     THEN SelectSeq(call.validated,
                                    LAMBDA r : r.Compound_Name \in call.compound_name_to_keep.v)
                     ELSE call.validated

----------------------------------------------------------------------------
(* df_annotations_filtering called directly *)

TaggedRows ==
    {[Compound_Name |-> n, tags |-> t] : n \in {<<"A">>, <<"B">>}, t \in {<<"t1">>, <<"t2">>}}
        \cup {[Compound_Name |-> <<"C">>, tags |-> <<"t3">>]}

NameLists == {NoList, Supplied({}), Supplied({<<"A">>}), Supplied({<<"A">>, <<"B">>})}

TagLists == {NoList, Supplied({}), Supplied({<<"t2">>}), Supplied({<<"t1">>, <<"t3">>})}

InitNameFilter ==
    /\ markdown_link_sygma = "unset"
    /\ markdown_link_biotransf = "unset"
    /\ pc = "call"
    /\ list_compound_name = <<>>
    /\ list_smiles = <<>>
    /\ extra_compound_names = <<>>
    /\ extra_compound_smiles = <<>>
    /\ \E rows \in SeqUpTo(TaggedRows, MaxRows), n \in NameLists, t \in TagLists :
          call = [fn |-> "df_annotations_filtering", df |-> Table(rows, "df"),
                  compound_name |-> n, tags |-> t]
    /\ ret = <<>>

CallNameFilter ==
    /\ pc = "call"
    /\ ret' = df_annotations_filtering(call.df, call.compound_name, call.tags)
    /\ pc' = "returned"
    /\ UNCHANGED <<list_compound_name, list_smiles, extra_compound_names,
                   extra_compound_smiles, call,
                   markdown_link_sygma, markdown_link_biotransf>>

NextNameFilter == CallNameFilter

SpecNameFilter == InitNameFilter /\ [][NextNameFilter]_vars

\* the positions a..b of the returned table are rows of the input, in input
\* order, and hold every input row for which hit is true once and no other
SelectionAt(a, b, hit) ==
    /\ \A k \in a..b : ret[k] = call.df[ret[k].src[2]] /\ hit[ret[k].src[2]]
    /\ \A k, m \in a..b : k < m => ret[k].src[2] < ret[m].src[2]
    /\ \A i \in 1..Len(call.df) : hit[i] => \E k \in a..b : ret[k].src[2] = i

NameHit == [i \in 1..Len(call.df) |-> call.df[i].Compound_Name \in call.compound_name.v]

TagHit == [i \in 1..Len(call.df) |-> call.df[i].tags \in call.tags.v]

\* C8: with both allow-lists the result is the rows whose name is listed
\* followed by the rows whose tag is listed (a row matching both is there
\* twice); with one allow-list it is exactly the rows matching it; with
\* neither it is the input.
C8_UnionOfSelections ==
    (pc = "returned" /\ call.fn = "df_annotations_filtering") =>
        IF call.compound_name.given /\ call.tags.given
        THEN \E n \in 0..Len(ret) :
                 SelectionAt(1, n, NameHit) /\ SelectionAt(n + 1, Len(ret), TagHit)
        ELSE IF call.compound_name.given THEN SelectionAt(1, Len(ret), NameHit)
        ELSE IF call.tags.given THEN SelectionAt(1, Len(ret), TagHit)
        ELSE ret = call.df

\* the example of the specification: rows A:t1, B:t2, C:t3, names ['A'], tags
\* ['t2'] give rows A and B, where the intersection would be empty
C8_Witness ==
    /\ pc = "returned"
    /\ call.fn = "df_annotations_filtering"
    /\ call.compound_name = Supplied({<<"A">>})
    /\ call.tags = Supplied({<<"t2">>})
    /\ Len(call.df) = 3
    /\ call.df[1].tags = <<"t1">> /\ call.df[1].Compound_Name = <<"A">>
    /\ call.df[2].tags = <<"t2">> /\ call.df[2].Compound_Name = <<"B">>
    /\ call.df[3].tags = <<"t3">> /\ call.df[3].Compound_Name = <<"C">>
    /\ ret = <<call.df[1], call.df[2]>>

----------------------------------------------------------------------------
(* df_csifingerid_cosmic_annotations_filtering called directly *)

IdentificationRows ==
    {[ZodiacScore |-> z, ConfidenceScore |-> c, links |-> l] :
        z \in {<<>>, <<0>>, <<1>>}, c \in {<<>>, <<0>>, <<1>>},
        l \in {NaN, <<"K">>, <<"H">>}}

Thresholds == {NoNumber, Supplied(0), Supplied(1)}

LinkPatterns == {NoString, Supplied(<<"K">>), Supplied(<<"K", "|", "H">>)}

InitScoreFilter ==
    /\ markdown_link_sygma = "unset"
    /\ markdown_link_biotransf = "unset"
    /\ pc = "call"
    /\ list_compound_name = <<>>
    /\ list_smiles = <<>>
    /\ extra_compound_names = <<>>
    /\ extra_compound_smiles = <<>>
    /\ \E rows \in SeqUpTo(IdentificationRows, MaxFilterRows),
          z \in Thresholds, c \in Thresholds, l \in LinkPatterns :
          call = [fn |-> "df_csifingerid_cosmic_annotations_filtering",
                  df |-> Table(rows, "df"), zodiac_score |-> z,
                  confidence_score |-> c, links |-> l]
    /\ ret = <<>>

CallScoreFilter ==
    /\ pc = "call"
    /\ ret' = df_csifingerid_cosmic_annotations_filtering(
                  call.df, call.zodiac_score, call.confidence_score, call.links)
    /\ pc' = "returned"
    /\ UNCHANGED <<list_compound_name, list_smiles, extra_compound_names,
                   extra_compound_smiles, call,
                   markdown_link_sygma, markdown_link_biotransf>>

NextScoreFilter == CallScoreFilter

SpecScoreFilter == InitScoreFilter /\ [][NextScoreFilter]_vars

\* C9 as stated: a call given a zodiac threshold z and a confidence threshold c
\* returns, for every numeric z and c (zero included), exactly the input rows
\* with ZodiacScore >= z and ConfidenceScore >= c, in input order, restricted
\* to the rows whose links match when a link pattern is given too.
C9_BothThresholdsApplied ==
    (pc = "returned" /\ call.fn = "df_csifingerid_cosmic_annotations_filtering"
        /\ call.zodiac_score.given /\ call.confidence_score.given) =>
        ret = SelectSeq(call.df,
                        LAMBDA r : /\ Geq(r.ZodiacScore, call.zodiac_score.v)
                                   /\ Geq(r.ConfidenceScore, call.confidence_score.v)
                                   /\ call.links.given => StrContains(r.links, call.links.v))

----------------------------------------------------------------------------
(* get_info_gnps_annotations called directly, then called on what it returned *)

\* a string that holds 'InChI' but does not start with it
xInChI == <<"x", "I", "n", "C", "h", "I">>

\* annotation rows with the identifier column: a valid identifier, the text
\* 'nan', a string that is no identifier, a missing cell
IdentifierRows ==
    {[Compound_Name |-> n, Consol_InChI |-> c, Consol_SMILES |-> CCO] :
        n \in {<<"x">>, <<"y">>}, c \in {InChI1, nan, xInChI, NaN}}

\* rows of a table that has no identifier column
NoIdentifierRows ==
    {[Compound_Name |-> n, Consol_SMILES |-> CCO] : n \in {<<"x">>, <<"y">>}}

\* the dtypes pandas can give the identifier column: float64 only when no cell
\* of a non-empty column holds a string
Dtypes(rows) ==
    IF rows # <<>> /\ \A i \in 1..Len(rows) : rows[i].Consol_InChI = NaN
    THEN {"object", "float64"}
    ELSE {"object"}

InitValidator ==
    /\ pc = "call"
    /\ markdown_link_sygma = "unset"
    /\ markdown_link_biotransf = "unset"
    /\ list_compound_name = <<>>
    /\ list_smiles = <<>>
    /\ extra_compound_names = <<>>
    /\ extra_compound_smiles = <<>>
    /\ \/ \E rows \in SeqUpTo(IdentifierRows, MaxRows) : \E t \in Dtypes(rows) :
             call = [fn |-> "get_info_gnps_annotations", df |-> Table(rows, "df"),
                     inchi_column |-> "Consol_InChI", dtype |-> t, first |-> <<>>,
                     pass |-> 1]
       \/ \E rows \in SeqUpTo(NoIdentifierRows, MaxRows) \ {<<>>} :
             call = [fn |-> "get_info_gnps_annotations", df |-> Table(rows, "df"),
                     inchi_column |-> "Consol_InChI", dtype |-> "none", first |-> <<>>,
                     pass |-> 1]
    /\ ret = <<>>

\* lines 35-60: the call raises at line 38, or reports the rows lacking a
\* structure (ret.missing) and returns the validated rows (ret.df)
CallValidator ==
    /\ pc = "call"
    /\ LET raised == str_accessor(call.df, call.inchi_column, call.dtype)
       IN  IF raised # "ok"
           THEN /\ ret' = [kind |-> raised, df |-> <<>>, missing |-> <<>>]
                /\ pc' = "raised"
           ELSE /\ ret' = [kind |-> "table",
                           df |-> get_info_gnps_annotations(call.df, call.inchi_column),
                           missing |-> Column(df_annotations_missing_structure(
                                                  call.df, call.inchi_column),
                                              "Compound_Name")]
                /\ pc' = "returned"
    /\ UNCHANGED <<list_compound_name, list_smiles, extra_compound_names,
                   extra_compound_smiles, call, markdown_link_sygma,
                   markdown_link_biotransf>>

\* the function called again on the table it returned (a filtered table keeps
\* the dtype of its column)
CallValidatorAgain ==
    /\ pc = "returned"
    /\ call.pass = 1
    /\ call' = [call EXCEPT !.df = ret.df, !.first = call.df, !.pass = 2]
    /\ ret' = [kind |-> "table",
               df |-> get_info_gnps_annotations(ret.df, call.inchi_column),
               missing |-> Column(df_annotations_missing_structure(
                                      ret.df, call.inchi_column),
                                  "Compound_Name")]
    /\ pc' = "returned"
    /\ UNCHANGED <<list_compound_name, list_smiles, extra_compound_names,
                   extra_compound_smiles, markdown_link_sygma,
                   markdown_link_biotransf>>

NextValidator ==
    \/ CallValidator
    \/ CallValidatorAgain

SpecValidator == InitValidator /\ [][NextValidator]_vars

\* the identifier of row r of the called table begins with 'InChI'
HasInChIPrefix(r) ==
    /\ "Consol_InChI" \in DOMAIN r
    /\ Len(r.Consol_InChI) >= 5
    /\ SubSeq(r.Consol_InChI, 1, 5) = <<"I", "n", "C", "h", "I">>

\* C11 as stated: when the identifier column is absent from the table, or
\* every cell of it is null, get_info_gnps_annotations does not raise: it
\* reports every row as lacking a structure and returns an empty table.
C11_NoIdentifierFieldDoesNotRaise ==
    (/\ call.fn = "get_info_gnps_annotations"
     /\ call.pass = 1
     /\ pc # "call"
     /\ call.df # <<>>
     /\ \A i \in 1..Len(call.df) :
            \/ "Consol_InChI" \notin DOMAIN call.df[i]
            \/ call.df[i].Consol_InChI \in {NaN, nan}) =>
        /\ pc = "returned"
        /\ ret.df = <<>>
        /\ Len(ret.missing) = Len(call.df)

\* C13: the table get_info_gnps_annotations returns holds exactly the rows of
\* its input whose identifier starts with 'InChI', in input order, and the
\* function called on that table returns it unchanged and reports no row.
C13_SecondPassKeepsAll ==
    (call.fn = "get_info_gnps_annotations" /\ pc = "returned") =>
        /\ \A i \in 1..Len(ret.df) :
               \E k \in 1..Len(call.df) : ret.df[i] = call.df[k] /\ HasInChIPrefix(call.df[k])
        /\ \A k \in 1..Len(call.df) :
               HasInChIPrefix(call.df[k]) => \E i \in 1..Len(ret.df) : ret.df[i] = call.df[k]
        /\ \A i, j \in 1..Len(ret.df) : i < j => ret.df[i].src[2] < ret.df[j].src[2]
        /\ call.pass = 2 => (ret.df = call.df /\ ret.missing = <<>>)

\* a second pass over the output of a first pass that discarded two of three rows
C13_Witness ==
    /\ call.fn = "get_info_gnps_annotations"
    /\ pc = "returned"
    /\ call.pass = 2
    /\ Len(call.first) = 3
    /\ Len(call.df) = 1
    /\ call.first[1].Consol_InChI = xInChI
    /\ call.first[3].Consol_InChI = NaN
    /\ ret.df = call.df

====
